---- MODULE Spec2Model ----
(***************************************************************************)
(* Model of the raster index calculation scheduler                         *)
(* (RasterIndexCalculator.execute), the compute tasks it submits           *)
(* (RasterIndexCalculatorTask.run) and the asynchronous save worker        *)
(* (RasterSaveTask).                                                       *)
(*                                                                         *)
(* Memory figures: a task's total_memory_usage is                          *)
(*   w*h*bands*bpp/1024/1024 + (w*h*bands*bpp/1024/1024)/bands,            *)
(* an integer number of bytes divided by 2^20.  Every such value, and      *)
(* every sum and difference of them the scheduler forms, is an exact       *)
(* binary fraction, so the float arithmetic on memory_usage is exact and   *)
(* is modelled by integer arithmetic on cost units.                        *)
(***************************************************************************)
EXTENDS Integers, Sequences, FiniteSets, TLC

\* ---- the invocation ------------------------------------------------------
\* constructor arguments of the run that is modelled: two rasters, two
\* indices, and a budget and a concurrency cap scaled down to the task costs
input_files == <<"a.tif", "b.tif">>
selected_indices == <<"Rnorm", "ExG_wernette">>
max_memory_usage == 1
max_active_tasks == 1

\* largest number_of_tasks of the instances whose progress is followed
MaxTasks == 8

\* turns of the resolver's while loop that are followed
MaxPasses == 8

\* ---- derived sets ------------------------------------------------------
Files == 1..Len(input_files)
Indices == 1..Len(selected_indices)
number_of_tasks == Len(input_files) * Len(selected_indices)
Tasks == 1..number_of_tasks
Costs == 1..(max_memory_usage + 1)

\* create_tasks yields tasks file by file, index by index
FileOf(k) == ((k - 1) \div Len(selected_indices)) + 1
IndexOf(k) == ((k - 1) % Len(selected_indices)) + 1

VARIABLES
  fileValid,           \* input: does load_raster_layer accept the file
  indexSupported,      \* input: is the selected index a key of indices_formulas
  fileCost,            \* input: total_memory_usage of the tasks of a file
  pc,                  \* scheduler position inside execute()
  phase,               \* which loop of execute() the current sweep belongs to
  next,                \* number of the next task the generator yields
  active_tasks,
  saving_tasks_queue,
  memory_usage,
  results,
  submitted,           \* tasks handed to QgsApplication.taskManager().addTask
  task_progress,       \* QgsTask.progress() of each compute task
  task_result,         \* calculation_status of task.result, "None" while result is None
  task_outcome,        \* how run() of the task went
  wpc,                 \* save worker position inside RasterSaveTask.run
  running,             \* RasterSaveTask.running
  cond_owner,          \* holder of RasterSaveTask.condition
  notified,            \* the waiting worker has been notified
  task_queue,          \* RasterSaveTask.task_queue
  cur,                 \* item the worker dequeued, 0 if none
  task_saving,         \* saving_status of task.result, written by the save worker
  saved_rasters,       \* RasterSaveTask.__saved_rasters
  lock_owner,          \* holder of RasterSaveTask.lock
  saved_rasters_copy,  \* local copy inside get_and_reset_saved_rasters
  appended_log,        \* history: every SaveRecord the worker appended
  delivered_log,       \* history: every SaveRecord a drain call returned
  put_log,             \* history: every item add_tasks put on task_queue
  index,               \* the expression calculate_special_functions is called with
  bandStatistics,      \* raster.dataProvider().bandStatistics of each band number
  rpc,                 \* position inside calculate_special_functions
  built_index,
  special_functions,
  passes,              \* history: completed turns of the while loop
  stat_reads,          \* history: statistics fetched from the raster in this call
  lib_reads,           \* history: lookups in indices_formulas in this call
  calls,               \* history: calls of calculate_special_functions so far
  progress,            \* self.progress, counted in tenths of a percent
  task_count           \* self.number_of_tasks

schedVars == <<pc, phase, next, active_tasks, saving_tasks_queue, memory_usage, results, submitted>>
inputVars == <<fileValid, indexSupported, fileCost>>
taskVars == <<task_progress, task_result, task_outcome>>
workerVars == <<wpc, running, cond_owner, notified, task_queue, cur, task_saving, saved_rasters, lock_owner>>
drainVars == <<saved_rasters_copy, appended_log, delivered_log>>
resolverVars == <<index, bandStatistics, rpc, built_index, special_functions, passes, stat_reads,
                  lib_reads, calls>>
progressVars == <<progress, task_count>>
vars == <<inputVars, schedVars, taskVars, workerVars, drainVars, put_log, resolverVars, progressVars>>

total_memory_usage(k) == fileCost[FileOf(k)]

\* the result dict a rejected task gets (execute, the "exceeds" branch)
RejectedResult(k) ==
  [index |-> k, calculation_status |-> "error", saving_status |-> "None"]

\* task.result of a finished compute task, as appended by the reap step
TaskResult(k) ==
  [index |-> k, calculation_status |-> task_result[k], saving_status |-> task_saving[k]]

Init ==
  /\ fileValid \in [Files -> BOOLEAN]
  /\ indexSupported \in [Indices -> BOOLEAN]
  /\ fileCost \in [Files -> Costs]
  /\ pc = "validate"
  /\ phase = "admit"
  /\ next = 1
  /\ active_tasks = <<>>
  /\ saving_tasks_queue = <<>>
  /\ memory_usage = 0
  /\ results = <<>>
  /\ submitted = {}
  /\ task_progress = [k \in Tasks |-> 0]
  /\ task_result = [k \in Tasks |-> "None"]
  /\ task_outcome = [k \in Tasks |-> "pending"]
  /\ wpc = "idle"
  /\ running = TRUE
  /\ cond_owner = "none"
  /\ notified = FALSE
  /\ task_queue = <<>>
  /\ cur = 0
  /\ task_saving = [k \in Tasks |-> "None"]
  /\ saved_rasters = <<>>
  /\ lock_owner = "none"
  /\ saved_rasters_copy = <<>>
  /\ appended_log = <<>>
  /\ delivered_log = <<>>
  /\ put_log = <<>>
  /\ index = <<>>
  /\ bandStatistics = <<>>
  /\ rpc = "idle"
  /\ built_index = <<>>
  /\ special_functions = <<>>
  /\ passes = 0
  /\ stat_reads = 0
  /\ lib_reads = 0
  /\ calls = 0
  /\ progress = 0
  /\ task_count = number_of_tasks

\* ---- execute(): validation and task generation -------------------------

\* __validate_indices raises ValueError on the first unsupported index
ValidateIndicesRaise ==
  /\ pc = "validate"
  /\ \E i \in Indices : ~indexSupported[i]
  /\ pc' = "raised"
  /\ UNCHANGED <<progressVars, resolverVars, put_log, inputVars, phase, next, active_tasks, saving_tasks_queue, memory_usage,
                 results, submitted, taskVars, workerVars, drainVars>>

\* validation passes; the (lazy) generator is created and the save task is
\* added to the task manager, which starts RasterSaveTask.run
ValidateIndicesOk ==
  /\ pc = "validate"
  /\ \A i \in Indices : indexSupported[i]
  /\ pc' = "gen"
  /\ wpc' = "loop"
  /\ UNCHANGED <<progressVars, resolverVars, put_log, inputVars, phase, next, active_tasks, saving_tasks_queue, memory_usage,
                 results, submitted, taskVars, running, cond_owner, notified, task_queue,
                 cur, task_saving, saved_rasters, lock_owner, drainVars>>

\* the generator reaches a new input file and load_raster_layer rejects it
LoadRasterLayerRaise ==
  /\ pc = "gen"
  /\ next <= number_of_tasks
  /\ IndexOf(next) = 1
  /\ ~fileValid[FileOf(next)]
  /\ pc' = "raised"
  /\ UNCHANGED <<progressVars, resolverVars, put_log, inputVars, phase, next, active_tasks, saving_tasks_queue, memory_usage,
                 results, submitted, taskVars, workerVars, drainVars>>

\* the generator can yield task `next`
Yields ==
  /\ pc = "gen"
  /\ next <= number_of_tasks
  /\ (IndexOf(next) = 1 => fileValid[FileOf(next)])

\* variant of Reject: the error result is recorded but the `continue` is
\* missing, so the task is admitted as well
Reject_noContinue ==
  /\ Yields
  /\ total_memory_usage(next) > max_memory_usage
  /\ results' = Append(results, RejectedResult(next))
  /\ memory_usage' = memory_usage + total_memory_usage(next)
  /\ active_tasks' = Append(active_tasks, next)
  /\ submitted' = submitted \cup {next}
  /\ next' = next + 1
  /\ pc' = "reap"
  /\ phase' = "admit"
  /\ UNCHANGED <<progressVars, resolverVars, put_log, inputVars, saving_tasks_queue, taskVars, workerVars, drainVars>>

\* the task alone exceeds the budget: record an error result and continue
Reject ==
  /\ Yields
  /\ total_memory_usage(next) > max_memory_usage
  /\ results' = Append(results, RejectedResult(next))
  /\ next' = next + 1
  /\ UNCHANGED <<progressVars, resolverVars, put_log, inputVars, pc, phase, active_tasks, saving_tasks_queue, memory_usage,
                 submitted, taskVars, workerVars, drainVars>>

\* reserve memory, track the task and submit it to the task manager
Admit ==
  /\ Yields
  /\ total_memory_usage(next) <= max_memory_usage
  /\ memory_usage' = memory_usage + total_memory_usage(next)
  /\ active_tasks' = Append(active_tasks, next)
  /\ submitted' = submitted \cup {next}
  /\ next' = next + 1
  /\ pc' = "reap"
  /\ phase' = "admit"
  /\ UNCHANGED <<progressVars, resolverVars, put_log, inputVars, saving_tasks_queue, results, taskVars, workerVars, drainVars>>

\* the generator is exhausted: leave the for loop
GeneratorExhausted ==
  /\ pc = "gen"
  /\ next > number_of_tasks
  /\ pc' = "final1"
  /\ UNCHANGED <<progressVars, resolverVars, put_log, inputVars, phase, next, active_tasks, saving_tasks_queue, memory_usage,
                 results, submitted, taskVars, workerVars, drainVars>>

\* ---- RasterIndexCalculatorTask.run -------------------------------------

\* how a run can go: the calculation succeeds, processCalculation reports a
\* non-success code, something raises after start_time was assigned, or
\* something raises before start_time was assigned
RunOutcomes == {"success", "error", "raise_after_timer", "raise_before_timer"}

\* self.result when run() ends.  A raise before the timer makes the except
\* block itself raise (start_time is unbound), so self.result stays None.
ResultAfterRun(o) ==
  CASE o = "success" -> "success"
    [] o = "error" -> "error"
    [] o = "raise_after_timer" -> "exception"
    [] o = "raise_before_timer" -> "None"

\* the task manager runs a submitted task; the finally block sets progress 100
TaskRun(k) ==
  /\ k \in submitted
  /\ task_outcome[k] = "pending"
  /\ \E o \in RunOutcomes :
       /\ task_outcome' = [task_outcome EXCEPT ![k] = o]
       /\ task_result' = [task_result EXCEPT ![k] = ResultAfterRun(o)]
  /\ task_progress' = [task_progress EXCEPT ![k] = 100]
  /\ UNCHANGED <<progressVars, resolverVars, put_log, inputVars, schedVars, workerVars, drainVars>>

\* ---- the sweep: reap, flush, drain --------------------------------------

\* __increase_progress: round(self.progress + self.progress_step, 1) with
\* progress_step = 100 / number_of_tasks.  In tenths the sum is
\* p + 1000 / N; it is rounded to the nearest whole tenth.  For N below 16
\* 1000 / N is never half way between two tenths and lies at least
\* 1 / (2 N) of a tenth from half way, far more than the error of the float
\* sum, so the float result is the nearest tenth of the exact sum.
increase_progress(p, N) == (2 * (p * N + 1000) + N) \div (2 * N)

\* __increase_progress called once for each of k records
RECURSIVE increase_progress_times(_, _, _)
increase_progress_times(p, N, k) ==
  IF k = 0 THEN p ELSE increase_progress_times(increase_progress(p, N), N, k - 1)

\* list.remove(x): drop the first occurrence of x
RECURSIVE Remove(_, _)
Remove(s, x) ==
  IF s = <<>> THEN <<>>
  ELSE IF Head(s) = x THEN Tail(s)
  ELSE <<Head(s)>> \o Remove(Tail(s), x)

\* variant of ReapOne: a successful task is also recorded at the reap
ReapOne_recordsSuccess(st, i) ==
  LET task == st.active[i] IN
  IF task_progress[task] # 100 THEN st
  ELSE IF task_result[task] = "None"
    THEN [st EXCEPT !.crashed = TRUE]
  ELSE IF task_result[task] = "success"
    THEN [st EXCEPT !.saving = Append(@, task),
                    !.results = Append(@, TaskResult(task)),
                    !.active = Remove(@, task)]
  ELSE [st EXCEPT !.mem = @ - total_memory_usage(task),
                  !.results = Append(@, TaskResult(task)),
                  !.progress = increase_progress(@, task_count),
                  !.active = Remove(@, task)]

\* variant of ReapOne: memory is released at the reap for every finished task
ReapOne_releasesSuccess(st, i) ==
  LET task == st.active[i] IN
  IF task_progress[task] # 100 THEN st
  ELSE IF task_result[task] = "None"
    THEN [st EXCEPT !.crashed = TRUE]
  ELSE IF task_result[task] = "success"
    THEN [st EXCEPT !.mem = @ - total_memory_usage(task),
                    !.saving = Append(@, task),
                    !.active = Remove(@, task)]
  ELSE [st EXCEPT !.mem = @ - total_memory_usage(task),
                  !.results = Append(@, TaskResult(task)),
                  !.progress = increase_progress(@, task_count),
                  !.active = Remove(@, task)]

\* variant of ReapOne: a failed task keeps its reservation
ReapOne_keepsReservation(st, i) ==
  LET task == st.active[i] IN
  IF task_progress[task] # 100 THEN st
  ELSE IF task_result[task] = "None"
    THEN [st EXCEPT !.crashed = TRUE]
  ELSE IF task_result[task] = "success"
    THEN [st EXCEPT !.saving = Append(@, task),
                    !.active = Remove(@, task)]
  ELSE [st EXCEPT !.results = Append(@, TaskResult(task)),
                  !.progress = increase_progress(@, task_count),
                  !.active = Remove(@, task)]

\* body of `for task in self.active_tasks` for the task at (1-based)
\* position i; st carries the scheduler fields the loop changes
ReapOne(st, i) ==
  LET task == st.active[i] IN
  IF task_progress[task] # 100 THEN st
  ELSE IF task_result[task] = "None"
    THEN [st EXCEPT !.crashed = TRUE]
  ELSE IF task_result[task] = "success"
    THEN [st EXCEPT !.saving = Append(@, task),
                    !.active = Remove(@, task)]
  ELSE [st EXCEPT !.mem = @ - total_memory_usage(task),
                  !.results = Append(@, TaskResult(task)),
                  !.progress = increase_progress(@, task_count),
                  !.active = Remove(@, task)]

\* the list iterator: it advances its position after every element, whether
\* or not the body removed the element, and stops at the current length
RECURSIVE ReapFrom(_, _)
ReapFrom(st, i) ==
  IF st.crashed \/ i > Len(st.active) THEN st
  ELSE ReapFrom(ReapOne(st, i), i + 1)

ReapResult ==
  ReapFrom([active |-> active_tasks, saving |-> saving_tasks_queue,
            mem |-> memory_usage, results |-> results, progress |-> progress,
            crashed |-> FALSE], 1)

\* __transfer_finished_tasks_to_saving_queue
TransferFinishedTasks ==
  /\ pc = "reap"
  /\ LET r == ReapResult IN
       /\ active_tasks' = r.active
       /\ saving_tasks_queue' = r.saving
       /\ memory_usage' = r.mem
       /\ results' = r.results
       /\ progress' = r.progress
       /\ pc' = IF r.crashed THEN "crashed" ELSE "flush"
  /\ UNCHANGED <<task_count, resolverVars, put_log, inputVars, phase, next, submitted, taskVars, workerVars, drainVars>>

\* variant of AddTasksAcquire: add_tasks does not take the condition
AddTasksAcquire_noCondition ==
  /\ pc = "flush"
  /\ pc' = "flush_put"
  /\ UNCHANGED <<progressVars, resolverVars, put_log, inputVars, phase, next, active_tasks, saving_tasks_queue, memory_usage,
                 results, submitted, taskVars, workerVars, drainVars>>

\* add_tasks: enter `with self.condition`
AddTasksAcquire ==
  /\ pc = "flush"
  /\ cond_owner = "none"
  /\ cond_owner' = "scheduler"
  /\ pc' = "flush_put"
  /\ UNCHANGED <<progressVars, resolverVars, put_log, inputVars, phase, next, active_tasks, saving_tasks_queue, memory_usage,
                 results, submitted, taskVars, wpc, running, notified, task_queue, cur,
                 task_saving, saved_rasters, lock_owner, drainVars>>

\* variant of AddTasksPut: the items are put but the worker is not notified
AddTasksPut_noNotify ==
  /\ pc = "flush_put"
  /\ task_queue' = task_queue \o saving_tasks_queue
  /\ put_log' = put_log \o saving_tasks_queue
  /\ cond_owner' = "none"
  /\ saving_tasks_queue' = <<>>
  /\ pc' = "drain"
  /\ UNCHANGED <<progressVars, resolverVars, inputVars, phase, next, active_tasks, memory_usage, results, submitted,
                 taskVars, wpc, running, notified, cur, task_saving, saved_rasters,
                 lock_owner, drainVars>>

\* add_tasks: put every task, notify, leave the with block; then
\* __save_rasters_from_memory_to_disk clears the saving queue
AddTasksPut ==
  /\ pc = "flush_put"
  /\ task_queue' = task_queue \o saving_tasks_queue
  /\ put_log' = put_log \o saving_tasks_queue
  /\ notified' = (notified \/ wpc = "wait")
  /\ cond_owner' = "none"
  /\ saving_tasks_queue' = <<>>
  /\ pc' = "drain"
  /\ UNCHANGED <<progressVars, resolverVars, inputVars, phase, next, active_tasks, memory_usage, results, submitted,
                 taskVars, wpc, running, cur, task_saving, saved_rasters, lock_owner,
                 drainVars>>

\* get_and_reset_saved_rasters: take the lock and copy the list
GetAndResetCopy ==
  /\ pc = "drain"
  /\ lock_owner = "none"
  /\ lock_owner' = "scheduler"
  /\ saved_rasters_copy' = saved_rasters
  /\ pc' = "drain_clear"
  /\ UNCHANGED <<progressVars, resolverVars, put_log, inputVars, phase, next, active_tasks, saving_tasks_queue, memory_usage,
                 results, submitted, taskVars, wpc, running, cond_owner, notified,
                 task_queue, cur, task_saving, saved_rasters, appended_log, delivered_log>>

\* variant of SumSizes: every drained record is released twice
RECURSIVE SumSizes_twice(_)
SumSizes_twice(recs) ==
  IF recs = <<>> THEN 0
  ELSE 2 * Head(recs).total_saved_size + SumSizes_twice(Tail(recs))

RECURSIVE SumSizes(_)
SumSizes(recs) ==
  IF recs = <<>> THEN 0 ELSE Head(recs).total_saved_size + SumSizes(Tail(recs))

ResultsOf(recs) == [j \in 1..Len(recs) |-> recs[j].result]

\* where the scheduler continues after a drain
AfterDrain == IF phase = "admit" THEN "wait" ELSE phase

\* get_and_reset_saved_rasters: clear the list, release the lock and return
\* the copy; __get_saved_rasters then records every returned SaveRecord
GetAndResetClear ==
  /\ pc = "drain_clear"
  /\ saved_rasters' = <<>>
  /\ lock_owner' = "none"
  /\ delivered_log' = delivered_log \o saved_rasters_copy
  /\ results' = results \o ResultsOf(saved_rasters_copy)
  /\ memory_usage' = memory_usage - SumSizes(saved_rasters_copy)
  /\ progress' = increase_progress_times(progress, task_count, Len(saved_rasters_copy))
  /\ saved_rasters_copy' = <<>>
  /\ pc' = AfterDrain
  /\ UNCHANGED <<task_count, resolverVars, put_log, inputVars, phase, next, active_tasks, saving_tasks_queue, submitted,
                 taskVars, wpc, running, cond_owner, notified, task_queue, cur,
                 task_saving, appended_log>>

\* ---- backpressure and the two final loops --------------------------------

\* variant of MustWait: the scheduler waits until the budget itself clears
MustWait_untilBudgetClears == memory_usage >= max_memory_usage

\* condition of the inner `while` that sleeps
MustWait ==
  /\ memory_usage >= max_memory_usage
  /\ Len(active_tasks) >= max_active_tasks
  /\ \A j \in 1..Len(active_tasks) : task_progress[active_tasks[j]] # 100

\* the scheduler leaves the wait and goes on to the next generated task
StopWaiting ==
  /\ pc = "wait"
  /\ ~MustWait
  /\ pc' = "gen"
  /\ UNCHANGED <<progressVars, resolverVars, put_log, inputVars, phase, next, active_tasks, saving_tasks_queue, memory_usage,
                 results, submitted, taskVars, workerVars, drainVars>>

\* `while len(self.active_tasks) > 0`: one more sweep
FinalSweep ==
  /\ pc = "final1"
  /\ Len(active_tasks) > 0
  /\ pc' = "reap"
  /\ phase' = "final1"
  /\ UNCHANGED <<progressVars, resolverVars, put_log, inputVars, next, active_tasks, saving_tasks_queue, memory_usage, results,
                 submitted, taskVars, workerVars, drainVars>>

ActiveEmpty ==
  /\ pc = "final1"
  /\ Len(active_tasks) = 0
  /\ pc' = "final2"
  /\ phase' = "final2"
  /\ UNCHANGED <<progressVars, resolverVars, put_log, inputVars, next, active_tasks, saving_tasks_queue, memory_usage, results,
                 submitted, taskVars, workerVars, drainVars>>

\* `while len(self.results) < self.number_of_tasks`: one more drain
FinalDrain ==
  /\ pc = "final2"
  /\ Len(results) < number_of_tasks
  /\ pc' = "drain"
  /\ UNCHANGED <<progressVars, resolverVars, put_log, inputVars, phase, next, active_tasks, saving_tasks_queue, memory_usage,
                 results, submitted, taskVars, workerVars, drainVars>>

\* execute() returns
Return ==
  /\ pc = "final2"
  /\ Len(results) >= number_of_tasks
  /\ pc' = "done"
  /\ UNCHANGED <<progressVars, resolverVars, put_log, inputVars, phase, next, active_tasks, saving_tasks_queue, memory_usage,
                 results, submitted, taskVars, workerVars, drainVars>>

\* ---- RasterSaveTask.run --------------------------------------------------

\* `while self.running:` then `with self.condition:`
WorkerEnter ==
  /\ wpc = "loop"
  /\ running
  /\ cond_owner = "none"
  /\ cond_owner' = "worker"
  /\ wpc' = "check"
  /\ UNCHANGED <<progressVars, resolverVars, put_log, inputVars, schedVars, taskVars, running, notified, task_queue, cur,
                 task_saving, saved_rasters, lock_owner, drainVars>>

\* `while self.task_queue.empty()`: the queue is empty
WorkerCheckEmpty ==
  /\ wpc = "check"
  /\ task_queue = <<>>
  /\ wpc' = "empty"
  /\ UNCHANGED <<progressVars, resolverVars, put_log, inputVars, schedVars, taskVars, running, cond_owner, notified,
                 task_queue, cur, task_saving, saved_rasters, lock_owner, drainVars>>

\* the worker is running: condition.wait() releases the condition and blocks
WorkerWait ==
  /\ wpc = "empty"
  /\ running
  /\ cond_owner' = "none"
  /\ notified' = FALSE
  /\ wpc' = "wait"
  /\ UNCHANGED <<progressVars, resolverVars, put_log, inputVars, schedVars, taskVars, running, task_queue, cur, task_saving,
                 saved_rasters, lock_owner, drainVars>>

\* a notified waiter re-acquires the condition and re-tests the queue
WorkerWake ==
  /\ wpc = "wait"
  /\ notified
  /\ cond_owner = "none"
  /\ cond_owner' = "worker"
  /\ notified' = FALSE
  /\ wpc' = "check"
  /\ UNCHANGED <<progressVars, resolverVars, put_log, inputVars, schedVars, taskVars, running, task_queue, cur, task_saving,
                 saved_rasters, lock_owner, drainVars>>

\* variant of WorkerLeave: the condition is kept after the with block
WorkerLeave_keepsCondition ==
  /\ wpc = "check"
  /\ task_queue # <<>>
  /\ wpc' = "get"
  /\ UNCHANGED <<progressVars, resolverVars, put_log, inputVars, schedVars, taskVars, running, cond_owner, notified,
                 task_queue, cur, task_saving, saved_rasters, lock_owner, drainVars>>

\* the queue is not empty: leave the with block
WorkerLeave ==
  /\ wpc = "check"
  /\ task_queue # <<>>
  /\ cond_owner' = "none"
  /\ wpc' = "get"
  /\ UNCHANGED <<progressVars, resolverVars, put_log, inputVars, schedVars, taskVars, running, notified, task_queue, cur,
                 task_saving, saved_rasters, lock_owner, drainVars>>

\* task_queue.get()
WorkerGet ==
  /\ wpc = "get"
  /\ task_queue # <<>>
  /\ cur' = Head(task_queue)
  /\ task_queue' = Tail(task_queue)
  /\ wpc' = "translate"
  /\ UNCHANGED <<progressVars, resolverVars, put_log, inputVars, schedVars, taskVars, running, cond_owner, notified, task_saving,
                 saved_rasters, lock_owner, drainVars>>

\* gdal.Translate succeeds, or raises and the except block records the error
SavingStatusAfter(ok) == IF ok THEN "success" ELSE "error"

WorkerTranslate ==
  /\ wpc = "translate"
  /\ \E ok \in BOOLEAN : task_saving' = [task_saving EXCEPT ![cur] = SavingStatusAfter(ok)]
  /\ wpc' = "append"
  /\ UNCHANGED <<progressVars, resolverVars, put_log, inputVars, schedVars, taskVars, running, cond_owner, notified, task_queue,
                 cur, saved_rasters, lock_owner, drainVars>>

\* the SaveRecord the finally block builds for the dequeued item
SaveRecord ==
  [total_saved_size |-> total_memory_usage(cur),
   result |-> [index |-> cur, calculation_status |-> task_result[cur],
               saving_status |-> task_saving[cur]]]

\* variant of LockFree: the append does not take the lock
LockFree_notTaken == TRUE

\* may the worker enter `with self.lock`
LockFree == lock_owner = "none"

\* variant of WorkerAppend: the record is appended at the end of the try
\* block instead of in finally, so a failed save leaves no SaveRecord
WorkerAppend_onlyOnSuccess ==
  /\ wpc = "append"
  /\ LockFree
  /\ saved_rasters' = IF task_saving[cur] = "success"
                        THEN Append(saved_rasters, SaveRecord) ELSE saved_rasters
  /\ appended_log' = IF task_saving[cur] = "success"
                       THEN Append(appended_log, SaveRecord) ELSE appended_log
  /\ cur' = 0
  /\ wpc' = "loop"
  /\ UNCHANGED <<progressVars, resolverVars, put_log, inputVars, schedVars, taskVars, running, cond_owner, notified, task_queue,
                 task_saving, lock_owner, saved_rasters_copy, delivered_log>>

\* finally: append the SaveRecord under the lock, then loop
WorkerAppend ==
  /\ wpc = "append"
  /\ LockFree
  /\ saved_rasters' = Append(saved_rasters, SaveRecord)
  /\ appended_log' = Append(appended_log, SaveRecord)
  /\ cur' = 0
  /\ wpc' = "loop"
  /\ UNCHANGED <<progressVars, resolverVars, put_log, inputVars, schedVars, taskVars, running, cond_owner, notified, task_queue,
                 task_saving, lock_owner, saved_rasters_copy, delivered_log>>

Next ==
  \/ ValidateIndicesRaise
  \/ ValidateIndicesOk
  \/ LoadRasterLayerRaise
  \/ Reject
  \/ Admit
  \/ GeneratorExhausted
  \/ \E k \in Tasks : TaskRun(k)
  \/ TransferFinishedTasks
  \/ AddTasksAcquire
  \/ AddTasksPut
  \/ GetAndResetCopy
  \/ GetAndResetClear
  \/ StopWaiting
  \/ FinalSweep
  \/ ActiveEmpty
  \/ FinalDrain
  \/ Return
  \/ WorkerEnter
  \/ WorkerCheckEmpty
  \/ WorkerWait
  \/ WorkerWake
  \/ WorkerLeave
  \/ WorkerGet
  \/ WorkerTranslate
  \/ WorkerAppend

Spec == Init /\ [][Next]_vars
\* ---- the run under fair scheduling -------------------------------------------

\* the steps of the thread that runs execute()
SchedulerStep ==
  \/ ValidateIndicesRaise
  \/ ValidateIndicesOk
  \/ LoadRasterLayerRaise
  \/ Reject
  \/ Admit
  \/ GeneratorExhausted
  \/ TransferFinishedTasks
  \/ AddTasksAcquire
  \/ AddTasksPut
  \/ GetAndResetCopy
  \/ GetAndResetClear
  \/ StopWaiting
  \/ FinalSweep
  \/ ActiveEmpty
  \/ FinalDrain
  \/ Return

\* the steps of the thread that runs RasterSaveTask.run while it is not stopped
WorkerStep ==
  \/ WorkerEnter
  \/ WorkerCheckEmpty
  \/ WorkerWait
  \/ WorkerWake
  \/ WorkerLeave
  \/ WorkerGet
  \/ WorkerTranslate
  \/ WorkerAppend

\* a run of a compute task that leaves a result
TaskRunWithResult(k) == TaskRun(k) /\ task_result'[k] # "None"

NextLive ==
  \/ SchedulerStep
  \/ \E k \in Tasks : TaskRunWithResult(k)
  \/ WorkerStep

\* every thread keeps being scheduled and every submitted compute task ends
\* with a result; the worker gets the locks it asks for, since the scheduler
\* holds them only for a put or a copy-and-clear between 0.5 s sleeps
SpecLive ==
  /\ Init
  /\ [][NextLive]_vars
  /\ WF_vars(SchedulerStep)
  /\ \A k \in Tasks : WF_vars(TaskRunWithResult(k))
  /\ SF_vars(WorkerStep)

\* ---- the run with a cancelled save task --------------------------------------

\* variant of Cancel: the flag is cleared but the waiting worker is not woken
Cancel_noNotify ==
  /\ wpc # "idle"
  /\ running
  /\ cond_owner = "none"
  /\ running' = FALSE
  /\ UNCHANGED <<progressVars, resolverVars, put_log, inputVars, schedVars, taskVars, wpc, cond_owner, notified, task_queue,
                 cur, task_saving, saved_rasters, lock_owner, drainVars>>

\* RasterSaveTask.cancel, called by the task manager at any time after the
\* task was added: under the condition, clear running and notify_all.
\* isCanceled() is read only in `not self.running or self.isCanceled()`,
\* which running = False already decides.
Cancel ==
  /\ wpc # "idle"
  /\ running
  /\ cond_owner = "none"
  /\ running' = FALSE
  /\ notified' = (notified \/ wpc = "wait")
  /\ UNCHANGED <<progressVars, resolverVars, put_log, inputVars, schedVars, taskVars, wpc, cond_owner, task_queue,
                 cur, task_saving, saved_rasters, lock_owner, drainVars>>

\* `while self.running:` is false: run returns True
WorkerExitLoop ==
  /\ wpc = "loop"
  /\ ~running
  /\ wpc' = "stopped"
  /\ UNCHANGED <<progressVars, resolverVars, put_log, inputVars, schedVars, taskVars, running, cond_owner, notified,
                 task_queue, cur, task_saving, saved_rasters, lock_owner, drainVars>>

\* the queue is empty and running is false: run leaves the with block and
\* returns False
WorkerExitEmpty ==
  /\ wpc = "empty"
  /\ ~running
  /\ cond_owner' = "none"
  /\ wpc' = "stopped"
  /\ UNCHANGED <<progressVars, resolverVars, put_log, inputVars, schedVars, taskVars, running, notified, task_queue, cur,
                 task_saving, saved_rasters, lock_owner, drainVars>>

\* the steps of the thread that runs RasterSaveTask.run
WorkerStepOrExit ==
  \/ WorkerStep
  \/ WorkerExitLoop
  \/ WorkerExitEmpty

NextCancel ==
  \/ SchedulerStep
  \/ \E k \in Tasks : TaskRun(k)
  \/ WorkerStepOrExit
  \/ Cancel

\* the scheduler and the worker keep being scheduled; the worker gets the
\* locks it asks for
SpecCancel ==
  /\ Init
  /\ [][NextCancel]_vars
  /\ WF_vars(SchedulerStep)
  /\ SF_vars(WorkerStepOrExit)

\* ---- the two locks of the save task, step by step -----------------------------
\* The append under `with self.lock` and the body of cancel under
\* `with self.condition` are taken in two steps each, entering the with
\* block and leaving it, so that the holder of each lock is part of the state.

\* finally: enter `with self.lock`
WorkerLockAcquire ==
  /\ wpc = "append"
  /\ lock_owner = "none"
  /\ lock_owner' = "worker"
  /\ wpc' = "locked"
  /\ UNCHANGED <<progressVars, resolverVars, put_log, inputVars, schedVars, taskVars, running, cond_owner, notified,
                 task_queue, cur, task_saving, saved_rasters, drainVars>>

\* append the SaveRecord, leave `with self.lock`, then loop
WorkerAppendLocked ==
  /\ wpc = "locked"
  /\ saved_rasters' = Append(saved_rasters, SaveRecord)
  /\ appended_log' = Append(appended_log, SaveRecord)
  /\ lock_owner' = "none"
  /\ cur' = 0
  /\ wpc' = "loop"
  /\ UNCHANGED <<progressVars, resolverVars, put_log, inputVars, schedVars, taskVars, running, cond_owner, notified,
                 task_queue, task_saving, saved_rasters_copy, delivered_log>>

\* cancel: enter `with self.condition`
CancelAcquire ==
  /\ wpc # "idle"
  /\ running
  /\ cond_owner = "none"
  /\ cond_owner' = "canceller"
  /\ UNCHANGED <<progressVars, resolverVars, put_log, inputVars, schedVars, taskVars, wpc, running, notified,
                 task_queue, cur, task_saving, saved_rasters, lock_owner, drainVars>>

\* cancel: running = False, notify_all, leave the with block
CancelNotify ==
  /\ cond_owner = "canceller"
  /\ running' = FALSE
  /\ notified' = (notified \/ wpc = "wait")
  /\ cond_owner' = "none"
  /\ UNCHANGED <<progressVars, resolverVars, put_log, inputVars, schedVars, taskVars, wpc, task_queue, cur,
                 task_saving, saved_rasters, lock_owner, drainVars>>

WorkerStepLocks ==
  \/ WorkerEnter
  \/ WorkerCheckEmpty
  \/ WorkerWait
  \/ WorkerWake
  \/ WorkerLeave
  \/ WorkerGet
  \/ WorkerTranslate
  \/ WorkerLockAcquire
  \/ WorkerAppendLocked
  \/ WorkerExitLoop
  \/ WorkerExitEmpty

NextLocks ==
  \/ SchedulerStep
  \/ \E k \in Tasks : TaskRun(k)
  \/ WorkerStepLocks
  \/ CancelAcquire
  \/ CancelNotify

SpecLocks == Init /\ [][NextLocks]_vars

\* ---- calculate_special_functions: the formula resolver ------------------------
\* An expression is the sequence of its tokens, blanks included, so that the
\* concatenation of the tokens is the text.  A token is a tuple: <<text>> for
\* a band symbol, number, operator, parenthesis or blank, and
\* <<"func_", name, parameter>> for one match of func_<name>(<parameter>).

indices_formulas ==
  "Rnorm" :> <<<<"R">>, <<" ">>, <<"/">>, <<" ">>, <<"func_", "band_max", "R">>>> @@
  "Gnorm" :> <<<<"G">>, <<" ">>, <<"/">>, <<" ">>, <<"func_", "band_max", "G">>>> @@
  "Bnorm" :> <<<<"B">>, <<" ">>, <<"/">>, <<" ">>, <<"func_", "band_max", "B">>>> @@
  "Rrefl_stary" :> <<<<"R">>, <<" ">>, <<"/">>, <<" ">>, <<"(">>, <<"R">>, <<" ">>, <<"+">>,
      <<" ">>, <<"G">>, <<" ">>, <<"+">>, <<" ">>, <<"B">>, <<")">>>> @@
  "Grefl_stary" :> <<<<"G">>, <<" ">>, <<"/">>, <<" ">>, <<"(">>, <<"R">>, <<" ">>, <<"+">>,
      <<" ">>, <<"G">>, <<" ">>, <<"+">>, <<" ">>, <<"B">>, <<")">>>> @@
  "Brefl_stary" :> <<<<"B">>, <<" ">>, <<"/">>, <<" ">>, <<"(">>, <<"R">>, <<" ">>, <<"+">>,
      <<" ">>, <<"G">>, <<" ">>, <<"+">>, <<" ">>, <<"B">>, <<")">>>> @@
  "ExR_stary" :> <<<<"MISSING">>>> @@
  "ExG_stary" :> <<<<"2">>, <<" ">>, <<"*">>, <<" ">>, <<"func_", "index", "Grefl_stary">>,
      <<" ">>, <<"-">>, <<" ">>, <<"func_", "index", "Rrefl_stary">>, <<" ">>, <<"-">>,
      <<" ">>, <<"func_", "index", "Brefl_stary">>>> @@
  "ExGR_stary" :> <<<<"func_", "index", "ExG_stary">>, <<" ">>, <<"-">>, <<" ">>,
      <<"func_", "index", "ExR_stary">>>> @@
  "ExR_wernette" :> <<<<"1.4">>, <<" ">>, <<"*">>, <<" ">>, <<"R">>, <<" ">>, <<"-">>, <<" ">>,
      <<"G">>>> @@
  "ExG_wernette" :> <<<<"2">>, <<" ">>, <<"*">>, <<" ">>, <<"G">>, <<" ">>, <<"-">>, <<" ">>,
      <<"R">>, <<" ">>, <<"-">>, <<" ">>, <<"B">>>> @@
  "ExB_wernette" :> <<<<"1.4">>, <<" ">>, <<"*">>, <<" ">>, <<"B">>, <<" ">>, <<"-">>, <<" ">>,
      <<"G">>>> @@
  "ExGR_wernette" :> <<<<"func_", "index", "ExG_wernette">>, <<" ">>, <<"-">>, <<" ">>,
      <<"func_", "index", "ExR_wernette">>>> @@
  "NGRDI_wernette" :> <<<<"(">>, <<"G">>, <<" ">>, <<"-">>, <<" ">>, <<"R">>, <<")">>, <<" ">>,
      <<"/">>, <<" ">>, <<"(">>, <<"G">>, <<" ">>, <<"+">>, <<" ">>, <<"R">>, <<")">>>> @@
  "MGRVI_wernette" :> <<<<"(">>, <<"G">>, <<"^">>, <<"2">>, <<" ">>, <<"-">>, <<" ">>, <<"R">>,
      <<"^">>, <<"2">>, <<")">>, <<" ">>, <<"/">>, <<" ">>, <<"(">>, <<"G">>, <<"^">>, <<"2">>,
      <<" ">>, <<"+">>, <<" ">>, <<"R">>, <<"^">>, <<"2">>, <<")">>>> @@
  "GLI_wernette" :> <<<<"(">>, <<"2">>, <<" ">>, <<"*">>, <<" ">>, <<"G">>, <<" ">>, <<"-">>,
      <<" ">>, <<"R">>, <<" ">>, <<"-">>, <<" ">>, <<"B">>, <<")">>, <<" ">>, <<"/">>, <<" ">>,
      <<"(">>, <<"2">>, <<" ">>, <<"*">>, <<" ">>, <<"G">>, <<" ">>, <<"+">>, <<" ">>, <<"R">>,
      <<" ">>, <<"+">>, <<" ">>, <<"B">>, <<")">>>> @@
  "GLI_stary" :> <<<<"(">>, <<"(">>, <<"G">>, <<" ">>, <<"-">>, <<" ">>, <<"R">>, <<")">>,
      <<"+">>, <<" ">>, <<"(">>, <<"G">>, <<" ">>, <<"-">>, <<" ">>, <<"B">>, <<")">>, <<")">>,
      <<" ">>, <<"/">>, <<" ">>, <<"(">>, <<"2">>, <<" ">>, <<"*">>, <<" ">>, <<"G">>, <<" ">>,
      <<"+">>, <<" ">>, <<"R">>, <<" ">>, <<"+">>, <<" ">>, <<"B">>, <<")">>>> @@
  "RGBVI_wernette" :> <<<<"(">>, <<"G">>, <<" ">>, <<"-">>, <<" ">>, <<"(">>, <<"B">>, <<" ">>,
      <<"*">>, <<" ">>, <<"R">>, <<")">>, <<")">>, <<" ">>, <<"/">>, <<" ">>, <<"(">>, <<"G">>,
      <<"^">>, <<"2">>, <<" ">>, <<"+">>, <<" ">>, <<"(">>, <<"B">>, <<" ">>, <<"*">>, <<" ">>,
      <<"R">>, <<")">>, <<")">>>> @@
  "RGBVI_stary" :> <<<<"(">>, <<"G">>, <<" ">>, <<"^">>, <<" ">>, <<"2">>, <<" ">>, <<"-">>,
      <<" ">>, <<"(">>, <<"B">>, <<" ">>, <<"*">>, <<" ">>, <<"R">>, <<")">>, <<")">>, <<" ">>,
      <<"/">>, <<" ">>, <<"(">>, <<"G">>, <<" ">>, <<"^">>, <<" ">>, <<"2">>, <<" ">>, <<"+">>,
      <<" ">>, <<"(">>, <<"B">>, <<" ">>, <<"*">>, <<" ">>, <<"R">>, <<")">>, <<")">>>> @@
  "IKAW_wernette" :> <<<<"(">>, <<"R">>, <<" ">>, <<"-">>, <<" ">>, <<"B">>, <<")">>, <<" ">>,
      <<"/">>, <<" ">>, <<"(">>, <<"R">>, <<" ">>, <<"+">>, <<" ">>, <<"B">>, <<")">>>> @@
  "GLA_wernette" :> <<<<"(">>, <<"(">>, <<"G">>, <<" ">>, <<"-">>, <<" ">>, <<"R">>, <<")">>,
      <<" ">>, <<"+">>, <<" ">>, <<"(">>, <<"G">>, <<" ">>, <<"-">>, <<" ">>, <<"B">>, <<")">>,
      <<")">>, <<" ">>, <<"/">>, <<" ">>, <<"(">>, <<"(">>, <<"G">>, <<" ">>, <<"+">>, <<" ">>,
      <<"R">>, <<")">>, <<" ">>, <<"+">>, <<" ">>, <<"(">>, <<"G">>, <<" ">>, <<"+">>, <<" ">>,
      <<"B">>, <<")">>, <<")">>>> @@
  "Gperc_stary" :> <<<<"G">>, <<" ">>, <<"/">>, <<" ">>, <<"(">>, <<"R">>, <<" ">>, <<"+">>,
      <<" ">>, <<"G">>, <<" ">>, <<"+">>, <<" ">>, <<"B">>, <<")">>>> @@
  "VARI_stary" :> <<<<"(">>, <<"G">>, <<" ">>, <<"-">>, <<" ">>, <<"R">>, <<")">>, <<" ">>,
      <<"/">>, <<" ">>, <<"(">>, <<"G">>, <<" ">>, <<"+">>, <<" ">>, <<"R">>, <<" ">>, <<"-">>,
      <<" ">>, <<"B">>, <<")">>>> @@
  "TGI_stary" :> <<<<"G">>, <<" ">>, <<"-">>, <<" ">>, <<"0.39">>, <<" ">>, <<"*">>, <<" ">>,
      <<"R">>, <<" ">>, <<"-">>, <<" ">>, <<"0.61">>, <<" ">>, <<"*">>, <<" ">>, <<"B">>>> @@
  "ExR_george" :> <<<<"1.4">>, <<" ">>, <<"*">>, <<" ">>, <<"func_", "index", "r_george">>,
      <<" ">>, <<"-">>, <<" ">>, <<"func_", "index", "g_george">>>> @@
  "ExG_george" :> <<<<"2">>, <<" ">>, <<"*">>, <<" ">>, <<"func_", "index", "g_george">>,
      <<" ">>, <<"-">>, <<" ">>, <<"func_", "index", "r_george">>, <<" ">>, <<"-">>, <<" ">>,
      <<"func_", "index", "b_george">>>> @@
  "ExGR_george" :> <<<<"func_", "index", "ExG_george">>, <<" ">>, <<"-">>, <<" ">>,
      <<"func_", "index", "ExR_george">>>> @@
  "r_george" :> <<<<"func_", "index", "Rnorm">>, <<" ">>, <<"/">>, <<" ">>, <<"(">>,
      <<"func_", "index", "Rnorm">>, <<" ">>, <<"+">>, <<" ">>, <<"func_", "index", "Gnorm">>,
      <<" ">>, <<"+">>, <<" ">>, <<"func_", "index", "Bnorm">>, <<")">>>> @@
  "g_george" :> <<<<"func_", "index", "Gnorm">>, <<" ">>, <<"/">>, <<" ">>, <<"(">>,
      <<"func_", "index", "Rnorm">>, <<" ">>, <<"+">>, <<" ">>, <<"func_", "index", "Gnorm">>,
      <<" ">>, <<"+">>, <<" ">>, <<"func_", "index", "Bnorm">>, <<")">>>> @@
  "b_george" :> <<<<"func_", "index", "Bnorm">>, <<" ">>, <<"/">>, <<" ">>, <<"(">>,
      <<"func_", "index", "Rnorm">>, <<" ">>, <<"+">>, <<" ">>, <<"func_", "index", "Gnorm">>,
      <<" ">>, <<"+">>, <<" ">>, <<"func_", "index", "Bnorm">>, <<")">>>> @@
  "NGRDI_stary" :> <<<<"(">>, <<"G">>, <<" ">>, <<"-">>, <<" ">>, <<"R">>, <<")">>, <<" ">>,
      <<"/">>, <<" ">>, <<"(">>, <<"G">>, <<" ">>, <<"+">>, <<" ">>, <<"R">>, <<")">>>> @@
  "ExGRnorm_george" :> <<<<"(">>, <<"func_", "index", "ExGR_george">>, <<" ">>, <<"+">>,
      <<" ">>, <<"2.4">>, <<")">>, <<" ">>, <<"/">>, <<" ">>, <<"5.4">>>>

index_names == DOMAIN indices_formulas

band_mapping == ("R" :> 1) @@ ("G" :> 2) @@ ("B" :> 3)

BandNumbers == {band_mapping[b] : b \in DOMAIN band_mapping}

\* what bandStatistics(band) of a raster can hold: an 8 bit and a 16 bit band
StatRecords ==
  { [maximumValue |-> 255, minimumValue |-> 0, mean |-> 128, stdDev |-> 64],
    [maximumValue |-> 65535, minimumValue |-> 0, mean |-> 32768, stdDev |-> 16384] }

\* str() of the float statistics above
str(v) ==
  CASE v = 0 -> "0.0"
    [] v = 64 -> "64.0"
    [] v = 128 -> "128.0"
    [] v = 255 -> "255.0"
    [] v = 16384 -> "16384.0"
    [] v = 32768 -> "32768.0"
    [] v = 65535 -> "65535.0"

IsFunc(tok) == Len(tok) = 3 /\ tok[1] = "func_"

\* the matches of func_(\w+)\(([^)]*)\) in the expression, left to right,
\* repeated matches included
extract_special_functions(expression) == SelectSeq(expression, IsFunc)

\* str.replace: every occurrence of the match is replaced, the replacement is
\* not scanned again
RECURSIVE Replace(_, _, _)
Replace(s, full_match, by) ==
  IF Len(s) = 0 THEN <<>>
  ELSE IF Len(s) = 1 THEN (IF s[1] = full_match THEN by ELSE s)
  ELSE LET half == Len(s) \div 2
       IN  Replace(SubSeq(s, 1, half), full_match, by)
             \o Replace(SubSeq(s, half + 1, Len(s)), full_match, by)

\* variant of ApplyFunc: an index reference is replaced by the bare template
ApplyFunc_noParentheses(func, st, stats) ==
  LET func_name == func[2]
      param == func[3]
      Stat(v) == IF param \in DOMAIN band_mapping
                 THEN [st EXCEPT !.built_index = Replace(@, func, << <<str(v)>> >>),
                                 !.stat_reads = @ + 1]
                 ELSE [st EXCEPT !.raised = TRUE]
  IN  CASE func_name = "band_max" -> Stat(stats[band_mapping[param]].maximumValue)
        [] func_name = "band_min" -> Stat(stats[band_mapping[param]].minimumValue)
        [] func_name = "band_mean" -> Stat(stats[band_mapping[param]].mean)
        [] func_name = "band_stddev" -> Stat(stats[band_mapping[param]].stdDev)
        [] func_name = "index" ->
             IF param \in index_names
             THEN [st EXCEPT !.built_index = Replace(@, func, indices_formulas[param]),
                             !.lib_reads = @ + 1]
             ELSE [st EXCEPT !.raised = TRUE, !.lib_reads = @ + 1]
        [] OTHER -> st

\* one turn of `for func in special_functions`: the branch for the function
\* name; a statistic is replaced by its str(), an index reference by the
\* named template in parentheses; a missing key raises KeyError
ApplyFunc(func, st, stats) ==
  LET func_name == func[2]
      param == func[3]
      Stat(v) == IF param \in DOMAIN band_mapping
                 THEN [st EXCEPT !.built_index = Replace(@, func, << <<str(v)>> >>),
                                 !.stat_reads = @ + 1]
                 ELSE [st EXCEPT !.raised = TRUE]
  IN  CASE func_name = "band_max" -> Stat(stats[band_mapping[param]].maximumValue)
        [] func_name = "band_min" -> Stat(stats[band_mapping[param]].minimumValue)
        [] func_name = "band_mean" -> Stat(stats[band_mapping[param]].mean)
        [] func_name = "band_stddev" -> Stat(stats[band_mapping[param]].stdDev)
        [] func_name = "index" ->
             IF param \in index_names
             THEN [st EXCEPT !.built_index =
                               Replace(@, func, << <<"(">> >> \o indices_formulas[param] \o << <<")">> >>),
                             !.lib_reads = @ + 1]
             ELSE [st EXCEPT !.raised = TRUE, !.lib_reads = @ + 1]
        [] OTHER -> st

\* the for loop over the matches of one pass, in order
RECURSIVE ForEachFunc(_, _, _)
ForEachFunc(funcs, st, stats) ==
  IF funcs = <<>> \/ st.raised THEN st
  ELSE ForEachFunc(Tail(funcs), ApplyFunc(Head(funcs), st, stats), stats)

func_index(name) == <<"func_", "index", name>>

\* the expressions handed to calculate_special_functions: every template of
\* the library (create_tasks), the reference to every index, a reference to
\* a name the library does not hold, and one use of every statistic
ResolverInputs ==
  {indices_formulas[n] : n \in index_names}
    \cup {<<func_index(n)>> : n \in index_names}
    \cup {<<func_index("NDVI")>>}
    \cup {<< <<"func_", "band_min", "R">>, <<" ">>, <<"+">>, <<" ">>, <<"func_", "band_mean", "G">>,
             <<" ">>, <<"*">>, <<" ">>, <<"func_", "band_stddev", "B">> >>}

\* the rest of the program stands still while the resolver runs
ExecuteNotStarted ==
  /\ fileValid = [f \in Files |-> TRUE]
  /\ indexSupported = [i \in Indices |-> TRUE]
  /\ fileCost = [f \in Files |-> 1]
  /\ pc = "validate"
  /\ phase = "admit"
  /\ next = 1
  /\ active_tasks = <<>>
  /\ saving_tasks_queue = <<>>
  /\ memory_usage = 0
  /\ results = <<>>
  /\ submitted = {}
  /\ task_progress = [k \in Tasks |-> 0]
  /\ task_result = [k \in Tasks |-> "None"]
  /\ task_outcome = [k \in Tasks |-> "pending"]
  /\ wpc = "idle"
  /\ running = TRUE
  /\ cond_owner = "none"
  /\ notified = FALSE
  /\ task_queue = <<>>
  /\ cur = 0
  /\ task_saving = [k \in Tasks |-> "None"]
  /\ saved_rasters = <<>>
  /\ lock_owner = "none"
  /\ saved_rasters_copy = <<>>
  /\ appended_log = <<>>
  /\ delivered_log = <<>>
  /\ put_log = <<>>
  /\ progress = 0

otherVars == <<inputVars, schedVars, taskVars, workerVars, drainVars, put_log, progressVars>>

\* calculate_special_functions is called with an expression and a raster
InitResolve ==
  /\ ExecuteNotStarted
  /\ task_count = number_of_tasks
  /\ index \in ResolverInputs
  /\ bandStatistics \in [BandNumbers -> StatRecords]
  /\ rpc = "called"
  /\ built_index = <<>>
  /\ special_functions = <<>>
  /\ passes = 0
  /\ stat_reads = 0
  /\ lib_reads = 0
  /\ calls = 1

\* variant of CalculateSpecialFunctions: the blanks are dropped on entry
CalculateSpecialFunctions_stripsBlanks ==
  /\ rpc = "called"
  /\ built_index' = SelectSeq(index, LAMBDA tok : tok # <<" ">>)
  /\ special_functions' = extract_special_functions(index)
  /\ rpc' = "while"
  /\ UNCHANGED <<otherVars, index, bandStatistics, passes, stat_reads, lib_reads, calls>>

\* built_index = index; special_functions = extract_special_functions(index)
CalculateSpecialFunctions ==
  /\ rpc = "called"
  /\ built_index' = index
  /\ special_functions' = extract_special_functions(index)
  /\ rpc' = "while"
  /\ UNCHANGED <<otherVars, index, bandStatistics, passes, stat_reads, lib_reads, calls>>

\* variant of WhileBody: the matches are not extracted again after the pass
WhileBody_keepsMatches ==
  /\ rpc = "while"
  /\ Len(special_functions) > 0
  /\ passes < MaxPasses
  /\ LET st == ForEachFunc(special_functions,
                           [built_index |-> built_index, stat_reads |-> stat_reads,
                            lib_reads |-> lib_reads, raised |-> FALSE],
                           bandStatistics)
     IN  /\ built_index' = st.built_index
         /\ stat_reads' = st.stat_reads
         /\ lib_reads' = st.lib_reads
         /\ rpc' = IF st.raised THEN "raised" ELSE "while"
         /\ special_functions' = special_functions
  /\ passes' = passes + 1
  /\ UNCHANGED <<otherVars, index, bandStatistics, calls>>

\* one pass of `while len(special_functions) > 0`: the for loop over the
\* matches, then the matches of the rebuilt expression
WhileBody ==
  /\ rpc = "while"
  /\ Len(special_functions) > 0
  /\ passes < MaxPasses
  /\ LET st == ForEachFunc(special_functions,
                           [built_index |-> built_index, stat_reads |-> stat_reads,
                            lib_reads |-> lib_reads, raised |-> FALSE],
                           bandStatistics)
     IN  /\ built_index' = st.built_index
         /\ stat_reads' = st.stat_reads
         /\ lib_reads' = st.lib_reads
         /\ rpc' = IF st.raised THEN "raised" ELSE "while"
         /\ special_functions' = IF st.raised THEN special_functions
                                 ELSE extract_special_functions(st.built_index)
  /\ passes' = passes + 1
  /\ UNCHANGED <<otherVars, index, bandStatistics, calls>>

\* no match is left: return built_index
ReturnBuiltIndex ==
  /\ rpc = "while"
  /\ Len(special_functions) = 0
  /\ rpc' = "returned"
  /\ UNCHANGED <<otherVars, index, bandStatistics, built_index, special_functions, passes,
                 stat_reads, lib_reads, calls>>

\* the returned expression is resolved again, with the same raster
ResolveAgain ==
  /\ rpc = "returned"
  /\ built_index # index
  /\ index' = built_index
  /\ rpc' = "called"
  /\ built_index' = <<>>
  /\ special_functions' = <<>>
  /\ passes' = 0
  /\ stat_reads' = 0
  /\ lib_reads' = 0
  /\ calls' = calls + 1
  /\ UNCHANGED <<otherVars, bandStatistics>>

NextResolve ==
  \/ CalculateSpecialFunctions
  \/ WhileBody
  \/ ReturnBuiltIndex
  \/ ResolveAgain

SpecResolve == InitResolve /\ [][NextResolve]_vars

\* ---- progress of an instance with any number of tasks ------------------------
\* Only results and progress are followed here: the instance has task_count
\* tasks, and each of them ends in one of the three places of execute()
\* that append to results.

InitProgress ==
  /\ ExecuteNotStarted
  /\ task_count \in 1..MaxTasks
  /\ index = <<>>
  /\ bandStatistics = <<>>
  /\ rpc = "idle"
  /\ built_index = <<>>
  /\ special_functions = <<>>
  /\ passes = 0
  /\ stat_reads = 0
  /\ lib_reads = 0
  /\ calls = 0

notResultsOrProgress ==
  <<task_count, resolverVars, put_log, inputVars, pc, phase, next, active_tasks, saving_tasks_queue,
    memory_usage, submitted, taskVars, workerVars, drainVars>>

\* execute: a task over the budget gets its error result; progress is not
\* increased
RecordRejected ==
  /\ Len(results) < task_count
  /\ results' = Append(results, RejectedResult(Len(results) + 1))
  /\ UNCHANGED <<progress, notResultsOrProgress>>

\* __transfer_finished_tasks_to_saving_queue: a failed task is recorded and
\* the progress is increased
RecordFailed ==
  /\ Len(results) < task_count
  /\ results' = Append(results, [index |-> Len(results) + 1, calculation_status |-> "error",
                                 saving_status |-> "None"])
  /\ progress' = increase_progress(progress, task_count)
  /\ UNCHANGED notResultsOrProgress

\* __get_saved_rasters: the result of a SaveRecord is recorded and the
\* progress is increased
RecordSaved ==
  /\ Len(results) < task_count
  /\ \E ok \in BOOLEAN :
       results' = Append(results, [index |-> Len(results) + 1, calculation_status |-> "success",
                                   saving_status |-> SavingStatusAfter(ok)])
  /\ progress' = increase_progress(progress, task_count)
  /\ UNCHANGED notResultsOrProgress

NextProgress ==
  \/ RecordRejected
  \/ RecordFailed
  \/ RecordSaved

SpecProgress == InitProgress /\ [][NextProgress]_vars

\* ---- helpers of the properties ---------------------------------------------

\* the positions of results that belong to task k
EntriesFor(k) == {j \in 1..Len(results) : results[j].index = k}

Range(s) == {s[j] : j \in 1..Len(s)}

\* task k has been yielded by the generator and was over the budget on its own
Rejected(k) == k < next /\ total_memory_usage(k) > max_memory_usage

\* ---- properties ----------------------------------------------------------

\* C1: when execute() returns, results has exactly one entry for every
\* requested (input raster, selected index) pair, so its length is
\* len(input_files) * len(selected_indices)
C1_OneResultPerTask ==
  pc = "done" =>
    /\ Len(results) = Len(input_files) * Len(selected_indices)
    /\ \A k \in Tasks : Cardinality(EntriesFor(k)) = 1

\* execute() returned from a run with a task whose calculation raised, a
\* task whose save failed and a task that was saved
C1_Witness ==
  /\ pc = "done"
  /\ \E j \in 1..Len(results) : results[j].calculation_status = "exception"
  /\ \E j \in 1..Len(results) : results[j].saving_status = "error"
  /\ \E j \in 1..Len(results) : results[j].saving_status = "success"

\* C2: a task whose cost alone exceeds max_memory_usage is recorded at once
\* with calculation_status error and no saving status, never enters the
\* active set, the task manager or the save pipeline, and the step that
\* rejects it leaves memory_usage unchanged
C2_RejectedNeverRuns ==
  /\ [](\A k \in Tasks : Rejected(k) =>
          /\ \E j \in EntriesFor(k) :
               /\ results[j].calculation_status = "error"
               /\ results[j].saving_status = "None"
          /\ Cardinality(EntriesFor(k)) = 1
          /\ k \notin submitted
          /\ k \notin Range(active_tasks)
          /\ k \notin Range(saving_tasks_queue)
          /\ k \notin Range(task_queue)
          /\ cur # k
          /\ task_progress[k] = 0)
  /\ [][(pc = "gen" /\ next' = next + 1
          /\ total_memory_usage(next) > max_memory_usage)
        => /\ memory_usage' = memory_usage
           /\ active_tasks' = active_tasks
           /\ submitted' = submitted
           /\ results' = Append(results, RejectedResult(next))]_vars

\* a task was rejected while another task's memory was reserved
C2_Witness ==
  /\ \E k \in Tasks : Rejected(k) /\ EntriesFor(k) # {}
  /\ memory_usage > 0

\* C3: the active set never holds more than max_active_tasks tasks
C3_ActiveWithinCap == Len(active_tasks) <= max_active_tasks

\* C4: memory_usage never exceeds max_memory_usage
C4_MemoryWithinBudget == memory_usage <= max_memory_usage

\* C5: memory_usage is never negative
C5_MemoryNonNegative == memory_usage >= 0

\* all reservations are back after a failed task was reaped and a
\* SaveRecord was drained
C5_Witness ==
  /\ memory_usage = 0
  /\ \E j \in 1..Len(results) :
       results[j].calculation_status = "error" /\ ~Rejected(results[j].index)
  /\ delivered_log # <<>>

\* the positions of a log of SaveRecords that belong to task k
RecordsFor(log, k) == {j \in 1..Len(log) : log[j].result.index = k}

\* C6: every SaveRecord the worker appended is returned by exactly one drain
\* call, and a drain call that holds the lock returns every record appended
\* before it took the lock that no earlier call returned
C6_DrainExactlyOnce ==
  /\ appended_log = delivered_log \o saved_rasters
  /\ pc = "drain_clear" => saved_rasters_copy = saved_rasters
  /\ \A k \in Tasks : Cardinality(RecordsFor(delivered_log, k)) <= 1

\* the worker has a record to append while a drain call that is returning an
\* earlier record holds the lock
C6_Witness ==
  /\ pc = "drain_clear"
  /\ saved_rasters_copy # <<>>
  /\ wpc = "append"

\* C7: a run that raises, wherever it raises, ends at 100% progress with a
\* result whose calculation_status is exception, and the reap step never
\* fails on a finished task
C7_FailureIsData ==
  /\ \A k \in Tasks :
       task_outcome[k] \in {"raise_before_timer", "raise_after_timer"} =>
         task_progress[k] = 100 /\ task_result[k] = "exception"
  /\ pc # "crashed"

\* C8: when execute() raises for an unsupported index or an invalid raster,
\* nothing has been admitted or submitted and memory_usage, the active set
\* and results are as constructed
C8_AbortBeforeScheduling ==
  pc = "raised" =>
    /\ submitted = {}
    /\ memory_usage = 0
    /\ active_tasks = <<>>
    /\ results = <<>>

\* the tasks whose reservation the scheduler still has to release
Holding ==
  Range(active_tasks) \cup Range(saving_tasks_queue) \cup Range(task_queue)
    \cup (IF cur = 0 THEN {} ELSE {cur})
    \cup {saved_rasters[j].result.index : j \in 1..Len(saved_rasters)}

RECURSIVE SumCost(_)
SumCost(S) ==
  IF S = {} THEN 0
  ELSE LET k == CHOOSE x \in S : TRUE IN total_memory_usage(k) + SumCost(S \ {k})

C10_MemoryReturnsToZero == pc = "done" => memory_usage = 0

\* execute() returned after a failed calculation, a failed save and a save
C10_Witness ==
  /\ pc = "done"
  /\ submitted = Tasks
  /\ \E j \in 1..Len(results) : results[j].calculation_status = "error"
  /\ \E j \in 1..Len(results) : results[j].saving_status = "error"
  /\ \E j \in 1..Len(results) : results[j].saving_status = "success"

\* C15: one reap step handles every finished task: when the step returns, no
\* task that is at 100% progress is left in the active set
C15_ReapHandlesEveryFinished ==
  [][(pc = "reap" /\ pc' = "flush") =>
       \A j \in 1..Len(active_tasks') : task_progress[active_tasks'[j]] # 100]_vars

\* in how many places of the pipeline task k sits
Occurrences(s, k) == Cardinality({j \in 1..Len(s) : s[j] = k})
PlaceCount(k) ==
  Occurrences(active_tasks, k) + Occurrences(saving_tasks_queue, k)
    + Occurrences(task_queue, k) + (IF cur = k THEN 1 ELSE 0)
    + Cardinality(RecordsFor(saved_rasters, k))

\* the tasks a reap step finalized
Finalized == Range(active_tasks) \ (Range(active_tasks') \cup Range(saving_tasks_queue'))

\* the tasks whose SaveRecord the drain in progress returns
Drained == {saved_rasters_copy[j].result.index : j \in 1..Len(saved_rasters_copy)}

\* C16: an admitted task's cost is subtracted exactly once: for a task that
\* did not succeed, at the reap that finalizes it; for a successful task, at
\* the drain of its SaveRecord, after the worker processed it; never while
\* the task is in the active set, the save queue or the worker queue
C16_ReleasedExactlyOnce ==
  /\ [](/\ memory_usage = SumCost(Holding)
        /\ \A k \in Tasks : PlaceCount(k) <= 1)
  /\ [][/\ memory_usage' > memory_usage => pc = "gen"
        /\ memory_usage' < memory_usage =>
             \/ /\ pc = "reap"
                /\ memory_usage - memory_usage' = SumCost(Finalized)
                /\ \A k \in Finalized :
                     task_progress[k] = 100 /\ task_result[k] # "success"
             \/ /\ pc = "drain_clear"
                /\ memory_usage - memory_usage' = SumCost(Drained)
                /\ \A k \in Drained :
                     /\ task_result[k] = "success"
                     /\ task_saving[k] # "None"
                     /\ k \notin Range(active_tasks) \cup Range(saving_tasks_queue)
                                   \cup Range(task_queue)
                     /\ cur # k]_vars

\* a successful task waits in the worker queue with its memory still
\* reserved, after the memory of a drained task and of a failed task
\* was released
C16_Witness ==
  /\ task_queue # <<>>
  /\ memory_usage = SumCost(Range(task_queue))
  /\ delivered_log # <<>>
  /\ \E j \in 1..Len(results) : results[j].calculation_status = "exception"

ValidInputs ==
  /\ \A i \in Indices : indexSupported[i]
  /\ \A f \in Files : fileValid[f]

\* C17: with valid inputs, compute tasks that all end with a result and a
\* fairly scheduled worker, execute() returns, with the active set empty,
\* every SaveRecord drained and one result per generated task
C17_ExecuteTerminates ==
  ValidInputs ~>
    (/\ pc = "done"
     /\ active_tasks = <<>>
     /\ delivered_log = appended_log
     /\ Len(results) = number_of_tasks)

\* execute() has returned after the worker saved every task
C17_Witness ==
  /\ pc = "done"
  /\ Len(delivered_log) = number_of_tasks
  /\ wpc = "wait"

IndicesOf(log) == [j \in 1..Len(log) |-> log[j].result.index]

\* C18: the worker is never blocked in its wait, un-notified, with a
\* non-empty queue; the items put by add_tasks are dequeued in order, each
\* once, and every item put is eventually appended as one SaveRecord
C18_NoLostWakeup ==
  /\ []((wpc = "wait" /\ task_queue # <<>>) => notified)
  /\ [](put_log = IndicesOf(appended_log)
                    \o (IF cur = 0 THEN <<>> ELSE <<cur>>) \o task_queue)
  /\ \A k \in Tasks :
       (k \in Range(task_queue)) ~> (Cardinality(RecordsFor(appended_log, k)) = 1)

\* add_tasks has put items while the worker was blocked in its wait, after
\* the worker had already appended a record
C18_Witness ==
  /\ wpc = "wait"
  /\ notified
  /\ Len(task_queue) >= 2
  /\ appended_log # <<>>

\* is sequence s a prefix of sequence t
IsPrefix(s, t) == Len(s) <= Len(t) /\ SubSeq(t, 1, Len(s)) = s

\* C20: after cancel() the worker loop eventually exits; it exits with no
\* dequeued item left unappended, and after the exit nothing is dequeued,
\* processed or appended any more
C20_CancelStopsWorker ==
  /\ (~running) ~> (wpc = "stopped")
  /\ [](wpc = "stopped" => (~running /\ cur = 0 /\ cond_owner # "worker"))
  /\ [][wpc = "stopped" =>
          /\ wpc' = "stopped"
          /\ appended_log' = appended_log
          /\ task_saving' = task_saving
          /\ cur' = cur
          /\ IsPrefix(task_queue, task_queue')]_vars

\* the worker has exited after appending a record, and items are left in
\* the work queue
C20_Witness ==
  /\ wpc = "stopped"
  /\ appended_log # <<>>
  /\ task_queue # <<>>

\* ---- properties of the resolver ----------------------------------------------

NoFunc(expression) == extract_special_functions(expression) = <<>>

\* C11 as stated: func_index(A) of a macro-free template A resolves to exactly
\* A's template text
C11_YieldsExactlyTheTemplate ==
  \A A \in index_names :
    (NoFunc(indices_formulas[A]) /\ calls = 1 /\ index = <<func_index(A)>> /\ rpc = "returned")
      => built_index = indices_formulas[A]

\* C11: func_index(A) of a macro-free template A resolves, in one pass and
\* with one lookup, to A's template text inside one pair of parentheses
C11_YieldsTemplateInParentheses ==
  \A A \in index_names :
    (NoFunc(indices_formulas[A]) /\ calls = 1 /\ index = <<func_index(A)>> /\ rpc = "returned")
      => /\ built_index = << <<"(">> >> \o indices_formulas[A] \o << <<")">> >>
         /\ passes = 1
         /\ lib_reads = 1
         /\ stat_reads = 0

\* func_index(ExG_wernette) has been resolved
C11_Witness ==
  /\ rpc = "returned"
  /\ calls = 1
  /\ index = <<func_index("ExG_wernette")>>
  /\ NoFunc(indices_formulas["ExG_wernette"])

NumericLiterals ==
  {"2", "1.4", "0.39", "0.61", "2.4", "5.4"}
    \cup UNION {{str(r.maximumValue), str(r.minimumValue), str(r.mean), str(r.stdDev)} :
                  r \in StatRecords}

FlatTokens ==
  {<<"R">>, <<"G">>, <<"B">>, <<"(">>, <<")">>, <<"+">>, <<"-">>, <<"*">>, <<"/">>, <<"^">>, <<" ">>}
    \cup {<<n>> : n \in NumericLiterals}

Flat(expression) == \A i \in 1..Len(expression) : expression[i] \in FlatTokens

\* C12: the resolved expression of every template of the library holds only
\* band symbols, numbers, parentheses, operators and blanks
C12_ResolvedIsFlat ==
  \A n \in index_names :
    (calls = 1 /\ index = indices_formulas[n] /\ rpc = "returned") => Flat(built_index)

\* the names a template refers to through func_index
index_refs(n) ==
  {indices_formulas[n][i][3] :
     i \in {j \in 1..Len(indices_formulas[n]) :
              IsFunc(indices_formulas[n][j]) /\ indices_formulas[n][j][2] = "index"}}

\* the names reached from the set S in at most k further references
RECURSIVE ReachedFrom(_, _)
ReachedFrom(S, k) ==
  IF k = 0 THEN S
  ELSE ReachedFrom(S \cup UNION {index_refs(n) : n \in S \cap index_names}, k - 1)

ReferencesExist ==
  \A n \in index_names : ReachedFrom(index_refs(n), Cardinality(index_names)) \subseteq index_names

ReferencesAcyclic ==
  \A n \in index_names : n \notin ReachedFrom(index_refs(n), Cardinality(index_names))

LibraryInputs ==
  {indices_formulas[n] : n \in index_names} \cup {<<func_index(n)>> : n \in index_names}

\* C13: for every template of the library and every func_index(name) the
\* expansion ends and succeeds: the referenced names are keys of the library,
\* the references form no cycle, no KeyError is raised, the while loop is
\* left after fewer than MaxPasses turns, and the returned expression holds
\* no func_ match
C13_ExpansionTerminates ==
  /\ ReferencesExist
  /\ ReferencesAcyclic
  /\ (calls = 1 /\ index \in LibraryInputs) =>
       /\ rpc # "raised"
       /\ passes < MaxPasses
       /\ rpc = "returned" => NoFunc(built_index)

\* func_index(ExGR_wernette) went through ExG_wernette and ExR_wernette in
\* two passes
C13_Witness ==
  /\ rpc = "returned"
  /\ calls = 1
  /\ index = <<func_index("ExGR_wernette")>>
  /\ passes = 2
  /\ lib_reads = 3

\* C14: an expression without a func_ match is returned unchanged, with no
\* pass of the loop, no statistic fetched and no library lookup; the output
\* of a resolution is such an expression
C14_FlatIsUnchanged ==
  /\ (rpc = "returned" /\ NoFunc(index)) =>
       /\ built_index = index
       /\ passes = 0
       /\ stat_reads = 0
       /\ lib_reads = 0
  /\ (calls > 1 /\ rpc # "idle") => NoFunc(index)

\* the output of a resolution has been resolved again
C14_Witness ==
  /\ rpc = "returned"
  /\ calls = 2
  /\ NoFunc(index)
  /\ Len(index) > 1

\* ---- lock discipline --------------------------------------------------------

Threads == {"scheduler", "worker", "canceller"}

\* the locks a thread holds: the condition of the work queue, the lock of
\* the list of saved rasters
LocksHeldBy(t) ==
  (IF cond_owner = t THEN {"condition"} ELSE {}) \cup (IF lock_owner = t THEN {"lock"} ELSE {})

\* the steps with which the holder of a lock goes on to release it
HolderCanStep ==
  /\ cond_owner = "scheduler" => ENABLED AddTasksPut
  /\ cond_owner = "canceller" => ENABLED CancelNotify
  /\ cond_owner = "worker" =>
       ENABLED (WorkerCheckEmpty \/ WorkerLeave \/ WorkerWait \/ WorkerExitEmpty)
  /\ lock_owner = "scheduler" => ENABLED GetAndResetClear
  /\ lock_owner = "worker" => ENABLED WorkerAppendLocked

\* C21: no thread holds the condition and the lock together; the lock is
\* held by the worker only for the append and by the scheduler only for the
\* copy-and-clear, the condition only inside the with blocks of run,
\* add_tasks and cancel, so neither is held across the wait, the dequeue or
\* gdal.Translate; and whoever holds a lock can always take the step that
\* releases it, so no thread waits for a lock for ever
C21_LockDiscipline ==
  /\ \A t \in Threads : Cardinality(LocksHeldBy(t)) <= 1
  /\ lock_owner \in {"none", "scheduler", "worker"}
  /\ lock_owner = "worker" <=> wpc = "locked"
  /\ lock_owner = "scheduler" <=> pc = "drain_clear"
  /\ cond_owner = "worker" <=> wpc \in {"check", "empty"}
  /\ cond_owner = "scheduler" <=> pc = "flush_put"
  /\ wpc \in {"wait", "get", "translate"} => LocksHeldBy("worker") = {}
  /\ HolderCanStep

\* the worker appends under the lock while the scheduler is inside add_tasks
\* with the condition: both locks are taken, by different threads
C21_Witness ==
  /\ lock_owner = "worker"
  /\ cond_owner = "scheduler"
  /\ wpc = "locked"
  /\ ~running

\* ---- progress ---------------------------------------------------------------

\* C22: the progress stays between 0 and 100 percent (0 and 1000 tenths)
\* whatever the number of tasks, also once every task is finalized
C22_ProgressWithinRange == progress >= 0 /\ progress <= 1000

====
